---- MODULE Spec2Model ----
(***************************************************************************)
(* A model of scrape_xp_tab9.py: one run of the script scrapes the XP      *)
(* history of every tracked character, gates on a change of xp_log.json,   *)
(* ranks the gains of the latest date, updates best_daily_xp.json and      *)
(* monthly_xp.json, posts to the webhook and commits with git.             *)
(*                                                                         *)
(* Python strings are sequences of one-character strings, so that          *)
(* str.strip, str.replace, int() and the lexicographic max() are computed  *)
(* rather than assumed.  A dict is a function; its insertion order, where  *)
(* the code depends on it, is carried as a separate sequence of keys.      *)
(***************************************************************************)
EXTENDS Integers, Sequences, FiniteSets, TLC

VARIABLES
    charFile,     \* characters.txt: [st |-> "absent"] or [st |-> "ok", lines |-> ...]
    xpLog,        \* xp_log.json
    bestFile,     \* best_daily_xp.json
    monthlyFile,  \* monthly_xp.json
    clock,        \* the wall clock: [month, lastDay]
    webhook,      \* how the webhook answers the first and the second post of a run
    runs,         \* number of runs of the script so far
    last,         \* what the last run did (exit, fetches, writes, posts, git)
    credited,     \* history: how often (name, date) was added to the totals of the stored period
    maxRanked,    \* history: per name, the largest gain it was ranked with so far
    ordIn,        \* argument of get_ordinal (specification SpecOrdinal)
    ordOut,       \* its result
    rankIn,       \* a scraped snapshot handed to the ranking (specification SpecRank)
    rankOut       \* the ranking computed from it

vars == <<charFile, xpLog, bestFile, monthlyFile, clock, webhook, runs, last, credited,
          maxRanked, ordIn, ordOut, rankIn, rankOut>>

----------------------------------------------------------------------------
(* Bounds of the model *)

\* runs of the script in one behaviour
MaxRuns == 2
\* get_ordinal is applied to 0 .. MaxOrdinal
MaxOrdinal == 121
\* longest raw change string handed to the ranking in SpecRank
MaxRawLen == 3

----------------------------------------------------------------------------
(* Python strings *)

Range(s) == {s[i] : i \in 1..Len(s)}

\* ord(c) of the characters that occur in the model's strings
Ord(c) ==
    CASE c = " " -> 32
      [] c = "+" -> 43
      [] c = "," -> 44
      [] c = "-" -> 45
      [] c = "0" -> 48
      [] c = "1" -> 49
      [] c = "2" -> 50
      [] c = "3" -> 51
      [] c = "4" -> 52
      [] c = "5" -> 53
      [] c = "6" -> 54
      [] c = "7" -> 55
      [] c = "8" -> 56
      [] c = "9" -> 57
      [] c = "A" -> 65
      [] c = "B" -> 66
      [] c = "C" -> 67
      [] c = "x" -> 120

Digits == {"0", "1", "2", "3", "4", "5", "6", "7", "8", "9"}

DigitVal(c) == Ord(c) - 48

\* a < b for Python str: the first differing character decides, a proper
\* prefix is smaller
RECURSIVE StrLess(_, _)
StrLess(a, b) ==
    IF b = <<>> THEN FALSE
    ELSE IF a = <<>> THEN TRUE
    ELSE IF a[1] = b[1] THEN StrLess(Tail(a), Tail(b))
    ELSE Ord(a[1]) < Ord(b[1])

\* max(S) of a non-empty set of strings
StrMax(S) == CHOOSE x \in S : \A y \in S : ~StrLess(x, y)

\* s.replace(c, "")
RECURSIVE Remove(_, _)
Remove(s, c) ==
    IF s = <<>> THEN <<>>
    ELSE IF Head(s) = c THEN Remove(Tail(s), c)
    ELSE <<Head(s)>> \o Remove(Tail(s), c)

\* s.strip()
RECURSIVE LStrip(_)
LStrip(s) == IF s # <<>> /\ Head(s) = " " THEN LStrip(Tail(s)) ELSE s

RECURSIVE RStrip(_)
RStrip(s) ==
    IF s # <<>> /\ s[Len(s)] = " " THEN RStrip(SubSeq(s, 1, Len(s) - 1)) ELSE s

Strip(s) == RStrip(LStrip(s))

\* c in s
Contains(s, c) == \E i \in 1..Len(s) : s[i] = c

RECURSIVE DigitsValue(_)
DigitsValue(s) ==
    IF s = <<>> THEN 0
    ELSE 10 * DigitsValue(SubSeq(s, 1, Len(s) - 1)) + DigitVal(s[Len(s)])

\* int(s) accepts an optional sign followed by at least one digit
IntParses(s) ==
    LET body == IF s # <<>> /\ s[1] \in {"+", "-"} THEN Tail(s) ELSE s
    IN  body # <<>> /\ \A i \in 1..Len(body) : body[i] \in Digits

IntValue(s) ==
    IF s[1] = "-" THEN 0 - DigitsValue(Tail(s))
    ELSE IF s[1] = "+" THEN DigitsValue(Tail(s))
    ELSE DigitsValue(s)

xp_str_to_int(xp_str) ==
    LET t == Strip(Remove(Remove(xp_str, ","), "+"))
    IN  IF IntParses(t) THEN IntValue(t) ELSE 0

----------------------------------------------------------------------------
(* Dicts and lists *)

EmptyDict == <<>>

\* dict.get(key, default)
Get(dict, key, default) == IF key \in DOMAIN dict THEN dict[key] ELSE default

\* the keys of a dict built by assigning keys[1], keys[2], ... in turn: a key
\* keeps the position of its first assignment
RECURSIVE KeyOrder(_)
KeyOrder(keys) ==
    IF keys = <<>> THEN <<>>
    ELSE LET front == KeyOrder(SubSeq(keys, 1, Len(keys) - 1))
             k == keys[Len(keys)]
         IN  IF k \in Range(front) THEN front ELSE Append(front, k)

\* Variant: a descending sort that puts an entry before the entries of equal
\* gain listed earlier (an ascending sort, reversed)
RECURSIVE SortByXpDesc_TiesReversed(_)
SortByXpDesc_TiesReversed(entries) ==
    IF entries = <<>> THEN <<>>
    ELSE LET front == SortByXpDesc_TiesReversed(SubSeq(entries, 1, Len(entries) - 1))
             e == entries[Len(entries)]
             before == SelectSeq(front, LAMBDA f : f.xp_val > e.xp_val)
             after == SelectSeq(front, LAMBDA f : f.xp_val <= e.xp_val)
         IN  before \o <<e>> \o after

\* list.sort(key=lambda x: x[1], reverse=True): descending by xp_val, and
\* Python's sort keeps the original order of elements with equal keys, also
\* under reverse=True
RECURSIVE SortByXpDesc(_)
SortByXpDesc(entries) ==
    IF entries = <<>> THEN <<>>
    ELSE LET front == SortByXpDesc(SubSeq(entries, 1, Len(entries) - 1))
             e == entries[Len(entries)]
             before == SelectSeq(front, LAMBDA f : f.xp_val >= e.xp_val)
             after == SelectSeq(front, LAMBDA f : f.xp_val < e.xp_val)
         IN  before \o <<e>> \o after

----------------------------------------------------------------------------
(* The functions of the script *)

load_characters(file) ==
    LET stripped == [i \in 1..Len(file.lines) |-> Strip(file.lines[i])]
    IN  SelectSeq(stripped, LAMBDA line : line # <<>>)

\* all_xp after the fetch loop: fetched[i] is what scrape_xp_tab9 returned
\* for characters[i]; a later assignment to the same name overwrites
AllXp(characters, fetched) ==
    [name \in Range(characters) |->
        fetched[CHOOSE i \in 1..Len(characters) :
                    /\ characters[i] = name
                    /\ \A j \in (i + 1)..Len(characters) : characters[j] # name]]

\* load_existing: a missing file is {}, an unparsable one makes json.load raise
load_existing(file) ==
    IF file.st = "absent" THEN [raises |-> FALSE, data |-> EmptyDict]
    ELSE IF file.st = "corrupt" THEN [raises |-> TRUE, data |-> EmptyDict]
    ELSE [raises |-> FALSE, data |-> file.data]

\* Variant: the snapshot is written and reported as changed without the
\* comparison
save_if_changed_NoCompare(data, file) ==
    LET old == load_existing(file)
    IN  IF old.raises THEN [raises |-> TRUE, changed |-> FALSE, file |-> file]
        ELSE [raises |-> FALSE, changed |-> TRUE, file |-> [st |-> "ok", data |-> data]]

\* save_if_changed: raises when load_existing does; otherwise reports whether
\* the data differ from the stored snapshot and the file as it is afterwards
save_if_changed(data, file) ==
    LET old == load_existing(file)
    IN  IF old.raises THEN [raises |-> TRUE, changed |-> FALSE, file |-> file]
        ELSE IF data = old.data
             THEN [raises |-> FALSE, changed |-> FALSE, file |-> file]
             ELSE [raises |-> FALSE, changed |-> TRUE,
                   file |-> [st |-> "ok", data |-> data]]

\* The outcomes of one call of post_to_discord_embed, by what the environment
\* does: no URL configured, requests.post raises, a status other than 200 and
\* 204, or a delivery
Outcomes == {"no_url", "post_raises", "bad_status", "ok"}

\* Variant: requests.post is called outside a try block
post_to_discord_embed_NoTry(kind, outcome) ==
    [raises |-> outcome = "post_raises", kind |-> kind, outcome |-> outcome]

\* post_to_discord_embed returns normally for every outcome
post_to_discord_embed(kind, outcome) ==
    [raises |-> FALSE, kind |-> kind, outcome |-> outcome]

load_monthly_xp(file, characters) ==
    LET month == IF file.st = "ok" THEN file.data.month ELSE ""
        totals == IF file.st = "ok" THEN file.data.totals
                  ELSE [name \in Range(characters) |-> 0]
    IN  [month |-> month,
         totals |-> [name \in DOMAIN totals \cup Range(characters) |->
                        Get(totals, name, 0)]]

load_best_daily_xp(file) == IF file.st = "ok" THEN file.data ELSE EmptyDict

get_current_month == clock.month

\* Variant: the test for 10 .. 20 is made on n instead of n % 100
get_ordinal_NoMod(n) ==
    LET suffix == IF 10 <= n /\ n <= 20 THEN "th"
                  ELSE CASE n % 10 = 1 -> "st"
                         [] n % 10 = 2 -> "nd"
                         [] n % 10 = 3 -> "rd"
                         [] OTHER -> "th"
    IN  [n |-> n, suffix |-> suffix]

get_ordinal(n) ==
    LET suffix == IF 10 <= n % 100 /\ n % 100 <= 20 THEN "th"
                  ELSE CASE n % 10 = 1 -> "st"
                         [] n % 10 = 2 -> "nd"
                         [] n % 10 = 3 -> "rd"
                         [] OTHER -> "th"
    IN  [n |-> n, suffix |-> suffix]

----------------------------------------------------------------------------
(* The steps of __main__ *)

\* latest_dates and latest_date; NoDate when no character has a row
NoDate == <<>>

LatestDate(all_xp) ==
    LET latest_dates == {StrMax(DOMAIN all_xp[name]) :
                            name \in {n \in DOMAIN all_xp : DOMAIN all_xp[n] # {}}}
    IN  IF latest_dates = {} THEN NoDate ELSE StrMax(latest_dates)

\* Variant: a gain of zero passes the test (xp_val < 0 instead of xp_val <= 0)
Gains_ZeroPasses(all_xp, name, latest_date) ==
    LET xp_raw == Get(all_xp[name], latest_date, <<>>)
    IN  /\ xp_raw # <<>>
        /\ Contains(xp_raw, "+")
        /\ xp_str_to_int(xp_raw) >= 0

\* whether the loop body reaches the append / the addition for this name
Gains(all_xp, name, latest_date) ==
    LET xp_raw == Get(all_xp[name], latest_date, <<>>)
    IN  /\ xp_raw # <<>>
        /\ Contains(xp_raw, "+")
        /\ xp_str_to_int(xp_raw) > 0

\* daily_xp_ranking: the entries in the order of all_xp.items(), then sorted
DailyRanking(order, all_xp, latest_date) ==
    LET gainers == SelectSeq(order, LAMBDA name : Gains(all_xp, name, latest_date))
        entries == [i \in 1..Len(gainers) |->
                       [name |-> gainers[i],
                        xp_val |-> xp_str_to_int(all_xp[gainers[i]][latest_date]),
                        xp_raw |-> all_xp[gainers[i]][latest_date]]]
    IN  SortByXpDesc(entries)

\* Variant: every ranked gain replaces the stored best
IsNewBest_Always(best_daily_xp, name, xp_val) == TRUE

\* whether the entry's gain replaces the stored best: no best is stored for
\* the name, or the gain exceeds it
IsNewBest(best_daily_xp, name, xp_val) ==
    name \notin DOMAIN best_daily_xp \/ xp_val > best_daily_xp[name].xp

\* best_daily_xp after the update loop
UpdateBest(best_daily_xp, ranking, latest_date) ==
    LET ranked == {ranking[i].name : i \in 1..Len(ranking)}
        EntryOf(name) == ranking[CHOOSE i \in 1..Len(ranking) : ranking[i].name = name]
    IN  [name \in DOMAIN best_daily_xp \cup ranked |->
            IF name \in ranked
               /\ IsNewBest(best_daily_xp, name, EntryOf(name).xp_val)
            THEN [xp |-> EntryOf(name).xp_val, date |-> latest_date]
            ELSE best_daily_xp[name]]

\* Variant: a new month is recorded and the totals are kept
ResetIfNewMonth_KeepsTotals(monthly_xp, current_month, characters) ==
    [monthly_xp EXCEPT !.month = current_month]

\* monthly_xp after the month check
ResetIfNewMonth(monthly_xp, current_month, characters) ==
    IF monthly_xp.month # current_month
    THEN [month |-> current_month, totals |-> [name \in Range(characters) |-> 0]]
    ELSE monthly_xp

\* monthly_xp after the accumulation loop
Accumulate(monthly_xp, all_xp, latest_date) ==
    LET gainers == {name \in DOMAIN all_xp : Gains(all_xp, name, latest_date)}
    IN  [monthly_xp EXCEPT !.totals =
            [name \in DOMAIN monthly_xp.totals \cup gainers |->
                IF name \in gainers
                THEN Get(monthly_xp.totals, name, 0)
                     + xp_str_to_int(all_xp[name][latest_date])
                ELSE monthly_xp.totals[name]]]

\* what a run that stops before any write leaves behind
Stopped(exit, at, fetches, all_xp) ==
    [xpLog |-> xpLog, bestFile |-> bestFile, monthlyFile |-> monthlyFile,
     credited |-> credited, maxRanked |-> maxRanked,
     last |-> [exit |-> exit, at |-> at, fetches |-> fetches, all_xp |-> all_xp,
               wrote |-> {}, posts |-> <<>>, git |-> 0, latest_date |-> NoDate,
               ranking |-> <<>>]]

\* the history variables after a run that ranked `ranking` and added the
\* gains to the totals; `reset` says that the totals were reset first
Credit(ranking, latest_date, reset) ==
    LET old == IF reset THEN EmptyDict ELSE credited
        keys == {<<ranking[i].name, latest_date>> : i \in 1..Len(ranking)}
    IN  [k \in DOMAIN old \cup keys |-> Get(old, k, 0) + (IF k \in keys THEN 1 ELSE 0)]

Ranked(ranking) ==
    LET ranked == {ranking[i].name : i \in 1..Len(ranking)}
        GainOf(name) == (CHOOSE i \in 1..Len(ranking) : ranking[i].name = name)
    IN  [name \in DOMAIN maxRanked \cup ranked |->
            IF name \in ranked /\ ranking[GainOf(name)].xp_val > Get(maxRanked, name, 0)
            THEN ranking[GainOf(name)].xp_val
            ELSE maxRanked[name]]

\* The run from the monthly leaderboard logic to the end of the script
MonthlyAndGit(characters, all_xp, latest_date, ranking, log, best, posts, o2) ==
    LET loaded == load_monthly_xp(monthlyFile, characters)
        current_month == get_current_month
        monthly_xp == Accumulate(ResetIfNewMonth(loaded, current_month, characters),
                                 all_xp, latest_date)
        monthly == post_to_discord_embed("monthly", o2)
        saved == [xpLog |-> log,
                  bestFile |-> [st |-> "ok", data |-> best],
                  monthlyFile |-> [st |-> "ok", data |-> monthly_xp],
                  credited |-> Credit(ranking, latest_date, loaded.month # current_month),
                  maxRanked |-> Ranked(ranking)]
        wrote == {"xp_log.json", "best_daily_xp.json", "monthly_xp.json"}
        base == [exit |-> "end", at |-> "end", fetches |-> Len(characters),
                 all_xp |-> all_xp, wrote |-> wrote, posts |-> posts, git |-> 6,
                 latest_date |-> latest_date, ranking |-> ranking]
    IN  IF ~clock.lastDay THEN saved @@ [last |-> base]
        ELSE IF monthly.raises
        THEN saved @@ [last |-> [base EXCEPT !.exit = "raised", !.at = "monthly_post",
                                             !.git = 0]]
        ELSE saved @@ [last |-> [base EXCEPT !.posts = Append(posts, monthly)]]

\* The run inside `if save_if_changed(all_xp)`, the snapshot being written
Changed(characters, all_xp, log, o1, o2) ==
    LET latest_date == LatestDate(all_xp)
        ranking == DailyRanking(KeyOrder(characters), all_xp, latest_date)
        written == [Stopped("exit", "no_dates", Len(characters), all_xp) EXCEPT
                        !.xpLog = log, !.last.wrote = {"xp_log.json"}]
        none == post_to_discord_embed("no_increases", o1)
        daily == post_to_discord_embed("daily", o1)
        best == UpdateBest(load_best_daily_xp(bestFile), ranking, latest_date)
        bestSaved == [written EXCEPT
                        !.bestFile = [st |-> "ok", data |-> best],
                        !.maxRanked = Ranked(ranking),
                        !.last.wrote = {"xp_log.json", "best_daily_xp.json"},
                        !.last.latest_date = latest_date,
                        !.last.ranking = ranking]
    IN  IF latest_date = NoDate THEN written
        ELSE IF ranking = <<>>
        THEN IF none.raises
             THEN [written EXCEPT !.last.exit = "raised", !.last.at = "no_increases_post",
                                  !.last.latest_date = latest_date]
             ELSE [written EXCEPT !.last.at = "no_increases", !.last.posts = <<none>>,
                                  !.last.latest_date = latest_date]
        ELSE IF daily.raises
        THEN [bestSaved EXCEPT !.last.exit = "raised", !.last.at = "daily_post"]
        ELSE MonthlyAndGit(characters, all_xp, latest_date, ranking, log, best,
                           <<daily>>, o2)

\* One run of the script: what it leaves in the files and what it did
Main(fetched, o1, o2) ==
    IF charFile.st = "absent" THEN Stopped("raised", "load_characters", 0, EmptyDict)
    ELSE LET characters == load_characters(charFile)
             all_xp == AllXp(characters, fetched)
             saved == save_if_changed(all_xp, xpLog)
         IN  IF DOMAIN all_xp = {}
             THEN Stopped("exit", "no_data", Len(characters), all_xp)
             ELSE IF saved.raises
             THEN Stopped("raised", "load_existing", Len(characters), all_xp)
             ELSE IF ~saved.changed
             THEN Stopped("end", "no_changes", Len(characters), all_xp)
             ELSE Changed(characters, all_xp, saved.file, o1, o2)

----------------------------------------------------------------------------
(* The inputs of the model *)

A == <<"A">>
B == <<"B">>
C == <<"C">>

D1 == <<"2", "0", "2", "4", "-", "0", "5", "-", "3", "0">>
D2 == <<"2", "0", "2", "4", "-", "0", "5", "-", "3", "1">>
Dates == {D1, D2}

Plus500 == <<"+", "5", "0", "0">>
Plus1000 == <<"+", "1", ",", "0", "0", "0">>
Zero == <<"0">>

\* what one fetch returns: nothing (a failed fetch, or no table), or one row
Scraped == {EmptyDict, D1 :> Plus500, D2 :> Plus1000, D2 :> Zero}

\* DISCORD_WEBHOOK_URL is unset for a whole run, or each post has its own fate
WebhookPlans ==
    {<<"no_url", "no_url">>}
        \cup ((Outcomes \ {"no_url"}) \X (Outcomes \ {"no_url"}))

\* characters.txt: absent, empty, blank lines only, or two names around a
\* blank line, the second with surrounding blanks
CharFiles ==
    { [st |-> "absent"],
      [st |-> "ok", lines |-> <<>>],
      [st |-> "ok", lines |-> << <<" ">>, <<>> >>],
      [st |-> "ok", lines |-> <<A, <<>>, <<" ", "B", " ">> >>] }

Absent == [st |-> "absent"]
Corrupt == [st |-> "corrupt"]

\* the months of the model's calendar, and the month after each but the last
FirstMonth == "2024-05"
NextMonth == ("2024-05" :> "2024-06")

NoRun ==
    [exit |-> "none", at |-> "none", fetches |-> 0, all_xp |-> EmptyDict,
     wrote |-> {}, posts |-> <<>>, git |-> 0, latest_date |-> NoDate,
     ranking |-> <<>>]

NoOrdinal == [n |-> 0, suffix |-> ""]
NoRanking == [st |-> "none", latest_date |-> NoDate, ranking |-> <<>>]

----------------------------------------------------------------------------
(* Specification Spec: runs of the script and the passing of time *)

Init ==
    /\ charFile \in CharFiles
    /\ \E files \in { <<Absent, Absent, Absent>>, <<Corrupt, Absent, Absent>>,
                       <<Absent, Corrupt, Corrupt>> } :
          /\ xpLog = files[1]
          /\ bestFile = files[2]
          /\ monthlyFile = files[3]
    /\ clock = [month |-> FirstMonth, lastDay |-> FALSE]
    /\ webhook \in WebhookPlans
    /\ runs = 0
    /\ last = NoRun
    /\ credited = EmptyDict
    /\ maxRanked = EmptyDict
    /\ ordIn = 0
    /\ ordOut = NoOrdinal
    /\ rankIn = [characters |-> <<>>, all_xp |-> EmptyDict]
    /\ rankOut = NoRanking

Run ==
    /\ runs < MaxRuns
    /\ \E fetched \in [1..(IF charFile.st = "absent" THEN 0
                           ELSE Len(load_characters(charFile))) -> Scraped] :
          \E r \in {Main(fetched, webhook[1], webhook[2])} :
              /\ xpLog' = r.xpLog
              /\ bestFile' = r.bestFile
              /\ monthlyFile' = r.monthlyFile
              /\ credited' = r.credited
              /\ maxRanked' = r.maxRanked
              /\ last' = r.last
    /\ runs' = runs + 1
    /\ UNCHANGED <<charFile, clock, webhook, ordIn, ordOut, rankIn, rankOut>>

\* Time passes before a run that is still to come: to the last day of the
\* month, then to the next month
Tick ==
    /\ runs < MaxRuns
    /\ \/ /\ ~clock.lastDay
          /\ clock' = [clock EXCEPT !.lastDay = TRUE]
       \/ /\ clock.lastDay
          /\ clock.month \in DOMAIN NextMonth
          /\ clock' = [month |-> NextMonth[clock.month], lastDay |-> FALSE]
    /\ UNCHANGED <<charFile, xpLog, bestFile, monthlyFile, webhook, runs, last,
                   credited, maxRanked, ordIn, ordOut, rankIn, rankOut>>

\* The webhook's configuration or health changes before a run that is still
\* to come
Network ==
    /\ runs < MaxRuns
    /\ webhook' \in WebhookPlans \ {webhook}
    /\ UNCHANGED <<charFile, xpLog, bestFile, monthlyFile, clock, runs, last,
                   credited, maxRanked, ordIn, ordOut, rankIn, rankOut>>

Next == Run \/ Tick \/ Network

Spec == Init /\ [][Next]_vars

----------------------------------------------------------------------------
(* Specification SpecOrdinal: get_ordinal applied to 0 .. MaxOrdinal *)

NoScript ==
    /\ charFile = Absent
    /\ xpLog = Absent
    /\ bestFile = Absent
    /\ monthlyFile = Absent
    /\ clock = [month |-> FirstMonth, lastDay |-> FALSE]
    /\ webhook = <<"ok", "ok">>
    /\ runs = 0
    /\ last = NoRun
    /\ credited = EmptyDict
    /\ maxRanked = EmptyDict

InitOrdinal ==
    /\ NoScript
    /\ ordIn \in 0..MaxOrdinal
    /\ ordOut = NoOrdinal
    /\ rankIn = [characters |-> <<>>, all_xp |-> EmptyDict]
    /\ rankOut = NoRanking

Ordinal ==
    /\ ordOut = NoOrdinal
    /\ ordOut' = get_ordinal(ordIn)
    /\ UNCHANGED <<charFile, xpLog, bestFile, monthlyFile, clock, webhook, runs, last,
                   credited, maxRanked, ordIn, rankIn, rankOut>>

NextOrdinal == Ordinal

SpecOrdinal == InitOrdinal /\ [][NextOrdinal]_vars

----------------------------------------------------------------------------
(* Specification SpecRank: the daily ranking of one scraped snapshot *)

RawAlphabet == {"+", "-", ",", "0", "5", " ", "x"}

\* every string over RawAlphabet of at most MaxRawLen characters
RawStrings == UNION {[1..n -> RawAlphabet] : n \in 0..MaxRawLen}

Plus5 == <<"+", "5">>
Plus50 == <<"+", "5", "0">>

\* The first character's rows: any raw string for the later date, or for the
\* earlier date only, or for the later date after a gain on the earlier one
FirstScraped ==
    {D2 :> r : r \in RawStrings} \cup {D1 :> r : r \in RawStrings}
        \cup {(D1 :> Plus5) @@ (D2 :> r) : r \in RawStrings}

\* The other characters' rows
OtherScraped == {EmptyDict, D1 :> Plus5, D2 :> Plus5, D2 :> Plus50}

InitRank ==
    /\ NoScript
    /\ ordIn = 0
    /\ ordOut = NoOrdinal
    /\ \E characters \in {<<A, B, C>>, <<C, B, A>>},
          a \in FirstScraped, b \in OtherScraped, c \in OtherScraped :
          rankIn = [characters |-> characters,
                    all_xp |-> (A :> a) @@ (B :> b) @@ (C :> c)]
    /\ rankOut = NoRanking

Rank ==
    /\ rankOut = NoRanking
    /\ LET latest_date == LatestDate(rankIn.all_xp)
       IN  rankOut' =
               IF latest_date = NoDate THEN [NoRanking EXCEPT !.st = "no_dates"]
               ELSE [st |-> "ranked", latest_date |-> latest_date,
                     ranking |-> DailyRanking(KeyOrder(rankIn.characters),
                                              rankIn.all_xp, latest_date)]
    /\ UNCHANGED <<charFile, xpLog, bestFile, monthlyFile, clock, webhook, runs, last,
                   credited, maxRanked, ordIn, ordOut, rankIn>>

NextRank == Rank

SpecRank == InitRank /\ [][NextRank]_vars

----------------------------------------------------------------------------
(* Vocabulary of the properties *)

RankedNames(ranking) == {ranking[i].name : i \in 1..Len(ranking)}

\* the gain a ranking lists for a name, 0 when it does not list it
GainIn(ranking, name) ==
    IF name \in RankedNames(ranking)
    THEN ranking[CHOOSE i \in 1..Len(ranking) : ranking[i].name = name].xp_val
    ELSE 0

\* the names best_daily_xp.json holds a best for
StoredBest(file) == IF file.st = "ok" THEN DOMAIN file.data ELSE {}

\* the step is a run of the script
IsRun == runs' = runs + 1

Tracked == IF charFile.st = "ok" THEN Range(load_characters(charFile)) ELSE {}

----------------------------------------------------------------------------
(* C1 *)

C1_StoredBestIsMax ==
    \A name \in DOMAIN maxRanked :
        /\ name \in StoredBest(bestFile)
        /\ bestFile.data[name].xp = maxRanked[name]

C1_BestStep ==
    /\ \A name \in StoredBest(bestFile) :
          /\ name \in StoredBest(bestFile')
          /\ bestFile'.data[name].xp >= bestFile.data[name].xp
          /\ bestFile'.data[name] # bestFile.data[name] =>
                /\ GainIn(last'.ranking, name) > bestFile.data[name].xp
                /\ bestFile'.data[name].xp = GainIn(last'.ranking, name)
    /\ \A name \in StoredBest(bestFile') \ StoredBest(bestFile) :
          /\ name \in RankedNames(last'.ranking)
          /\ bestFile'.data[name].xp = GainIn(last'.ranking, name)

\* C1: the "xp" stored for a name in best_daily_xp.json is the largest gain
\* the name was ranked with in any run so far; from one run to the next it
\* never decreases, and the stored entry changes only when the run's gain
\* exceeds the stored best or no best was stored.
C1_BestRecord == []C1_StoredBestIsMax /\ [][C1_BestStep]_vars

\* a run ranked A with 500 while 1,000 of an earlier run stays stored
C1_Witness ==
    /\ runs = 2
    /\ GainIn(last.ranking, A) = 500
    /\ bestFile.st = "ok"
    /\ A \in DOMAIN bestFile.data
    /\ bestFile.data[A] = [xp |-> 1000, date |-> D2]

----------------------------------------------------------------------------
(* C2 *)

C2_Step ==
    (IsRun /\ last'.at = "end") =>
        LET same == monthlyFile.st = "ok" /\ monthlyFile.data.month = clock.month
        IN  /\ monthlyFile'.st = "ok"
            /\ monthlyFile'.data.month = clock.month
            /\ IF same
               THEN \A name \in DOMAIN monthlyFile.data.totals \cup Tracked :
                       /\ name \in DOMAIN monthlyFile'.data.totals
                       /\ monthlyFile'.data.totals[name] =
                              Get(monthlyFile.data.totals, name, 0)
                              + GainIn(last'.ranking, name)
               ELSE /\ DOMAIN monthlyFile'.data.totals = Tracked
                    /\ \A name \in Tracked :
                          monthlyFile'.data.totals[name] = GainIn(last'.ranking, name)

\* C2: a run that reaches the monthly update while the month of the wall
\* clock differs from the stored "month" saves, for every tracked name, this
\* run's gain alone; when the months are equal it saves the stored total plus
\* this run's gain.
C2_PeriodReset == [][C2_Step]_vars

\* the totals of 2024-06 hold less for a name than a gain it was ranked with
\* before: the totals of 2024-05 were dropped
C2_Witness ==
    /\ monthlyFile.st = "ok"
    /\ monthlyFile.data.month = "2024-06"
    /\ last.at = "end"
    /\ \E name \in DOMAIN maxRanked :
          /\ name \in DOMAIN monthlyFile.data.totals
          /\ monthlyFile.data.totals[name] = 500
          /\ maxRanked[name] = 1000

----------------------------------------------------------------------------
(* C3 *)

C3_Step ==
    (IsRun /\ xpLog.st = "ok" /\ last'.all_xp = xpLog.data) =>
        /\ xpLog' = xpLog
        /\ bestFile' = bestFile
        /\ monthlyFile' = monthlyFile
        /\ last'.wrote = {}
        /\ last'.posts = <<>>
        /\ last'.git = 0
        /\ last'.exit = "end"

\* C3: a run whose scraped snapshot equals the snapshot stored in
\* xp_log.json leaves the three state files as they are, posts nothing and
\* runs no git command.
C3_ChangeGate == [][C3_Step]_vars

\* the second run scraped what the first had stored, after a full first run
C3_Witness ==
    /\ runs = 2
    /\ last.at = "no_changes"
    /\ xpLog.st = "ok"
    /\ last.all_xp = xpLog.data
    /\ bestFile.st = "ok"
    /\ monthlyFile.st = "ok"

----------------------------------------------------------------------------
(* C4 *)

\* C4: loading the persisted snapshot never raises: also with an absent or
\* unparsable xp_log.json a run that scraped data goes on as if there were
\* no prior state, so it stores the scraped snapshot.
C4_LoadNeverRaises ==
    (runs > 0 /\ DOMAIN last.all_xp # {}) =>
        /\ last.exit # "raised"
        /\ xpLog.st = "ok"

----------------------------------------------------------------------------
(* C5 *)

\* the lexicographic maximum of the dates of all inner mappings
ReferenceDate(all_xp) ==
    LET dates == UNION {DOMAIN all_xp[name] : name \in DOMAIN all_xp}
    IN  CHOOSE d \in dates : \A e \in dates : e = d \/ StrLess(e, d)

\* the raw string, without separators, plus signs and surrounding blanks,
\* is a decimal numeral greater than zero
PositiveGain(raw) ==
    LET t == Strip(Remove(Remove(raw, ","), "+"))
    IN  /\ t # <<>>
        /\ \A i \in 1..Len(t) : t[i] \in Digits
        /\ \E i \in 1..Len(t) : t[i] # "0"

\* C5: a name is in the daily ranking exactly if its raw string for the
\* reference date (the lexicographic maximum of all dates present) exists,
\* contains "+" and denotes a positive integer; no entry has a gain <= 0.
C5_RankingInclusion ==
    rankOut.st = "ranked" =>
        LET ref == ReferenceDate(rankIn.all_xp)
        IN  /\ rankOut.latest_date = ref
            /\ \A name \in DOMAIN rankIn.all_xp :
                  name \in RankedNames(rankOut.ranking) <=>
                      /\ ref \in DOMAIN rankIn.all_xp[name]
                      /\ Contains(rankIn.all_xp[name][ref], "+")
                      /\ PositiveGain(rankIn.all_xp[name][ref])
            /\ \A i \in 1..Len(rankOut.ranking) : rankOut.ranking[i].xp_val > 0

\* B alone is ranked: A has "+-5" for the reference date, C only an older date
C5_Witness ==
    /\ rankOut.st = "ranked"
    /\ rankIn.all_xp[A] = (D1 :> Plus5) @@ (D2 :> <<"+", "-", "5">>)
    /\ rankIn.all_xp[C] = (D1 :> Plus5)
    /\ RankedNames(rankOut.ranking) = {B}

----------------------------------------------------------------------------
(* C6 *)

\* the position of a name in the characters list
Position(characters, name) ==
    CHOOSE k \in 1..Len(characters) :
        /\ characters[k] = name
        /\ \A j \in 1..(k - 1) : characters[j] # name

\* C6: the daily ranking is in descending order of gain, and entries of
\* equal gain are in the order of their names in the characters list.
C6_RankingOrder ==
    rankOut.st = "ranked" =>
        \A i \in 1..Len(rankOut.ranking) : \A j \in (i + 1)..Len(rankOut.ranking) :
            /\ rankOut.ranking[i].xp_val >= rankOut.ranking[j].xp_val
            /\ rankOut.ranking[i].xp_val = rankOut.ranking[j].xp_val =>
                   Position(rankIn.characters, rankOut.ranking[i].name)
                       < Position(rankIn.characters, rankOut.ranking[j].name)

\* A and B tie behind C, listed in the order A, B, C
C6_Witness ==
    /\ rankOut.st = "ranked"
    /\ rankIn.characters = <<A, B, C>>
    /\ Len(rankOut.ranking) = 3
    /\ rankOut.ranking[1].name = C
    /\ rankOut.ranking[2].name = A
    /\ rankOut.ranking[3].name = B
    /\ rankOut.ranking[2].xp_val = rankOut.ranking[3].xp_val
    /\ rankOut.ranking[1].xp_val > rankOut.ranking[2].xp_val

----------------------------------------------------------------------------
(* C7 *)

C7_Step ==
    IsRun =>
        /\ last'.at \notin {"no_increases_post", "daily_post", "monthly_post"}
        /\ last'.ranking # <<>> =>
              /\ last'.exit = "end"
              /\ last'.posts[1] = [raises |-> FALSE, kind |-> "daily",
                                   outcome |-> webhook[1]]
              /\ "monthly_xp.json" \in last'.wrote
              /\ monthlyFile'.st = "ok"
              /\ monthlyFile'.data.month = clock.month
              /\ \A name \in RankedNames(last'.ranking) :
                    monthlyFile'.data.totals[name] >= GainIn(last'.ranking, name)
              /\ Len(last'.posts) = IF clock.lastDay THEN 2 ELSE 1
              /\ clock.lastDay => last'.posts[2].kind = "monthly"
              /\ last'.git = 6

\* C7: no run ends in post_to_discord_embed, whatever the webhook does; a run
\* that posts the daily leaderboard goes on to update and save the monthly
\* totals, attempts the monthly post on the last day of the month, and runs
\* the git commands.
C7_NotifyNeverAborts == [][C7_Step]_vars

\* requests.post raised for the daily post; the monthly post followed
C7_Witness ==
    /\ last.at = "end"
    /\ Len(last.posts) = 2
    /\ last.posts[1].outcome = "post_raises"
    /\ last.posts[2].kind = "monthly"
    /\ "monthly_xp.json" \in last.wrote

----------------------------------------------------------------------------
(* C8 *)

\* C8: with characters.txt absent or without a name the run ends normally,
\* having fetched nothing, written no state file and posted nothing.
C8_NoCharactersSkips ==
    (runs > 0 /\ Tracked = {}) =>
        /\ last.exit # "raised"
        /\ last.fetches = 0
        /\ last.wrote = {}
        /\ last.posts = <<>>

----------------------------------------------------------------------------
(* C9 *)

EnglishSuffix(n) ==
    IF n % 100 \in {11, 12, 13} THEN "th"
    ELSE IF n % 10 = 1 THEN "st"
    ELSE IF n % 10 = 2 THEN "nd"
    ELSE IF n % 10 = 3 THEN "rd"
    ELSE "th"

\* C9: get_ordinal(n) is n followed by the English ordinal suffix, for every
\* n from 0 to MaxOrdinal.
C9_Ordinal ==
    ordOut # NoOrdinal => ordOut = [n |-> ordIn, suffix |-> EnglishSuffix(ordIn)]

C9_Witness == ordIn = 112 /\ ordOut = [n |-> 112, suffix |-> "th"]

----------------------------------------------------------------------------
(* C10 *)

\* C10: within one period the gain of a name for a date is added to its
\* monthly total at most once.
C10_NoDoubleCounting == \A key \in DOMAIN credited : credited[key] <= 1

====
